---- MODULE Spec2Model ----
(***************************************************************************)
(* Model of src/analysis.py: a sequential script that reads numeric lines, *)
(* buckets them by index parity into lefts / rights, and logs min, mean,   *)
(* median and max of each series and of each series' trailing window.      *)
(*                                                                         *)
(* A line is a tuple of one-character strings (without its newline).       *)
(* A float is an integer number of quanta (1/Scale each): finite values    *)
(* lie in -FMax..FMax, results beyond that range are the infinities, and   *)
(* NaN is a separate value that compares false with everything, as in      *)
(* IEEE-754 binary64.                                                      *)
(***************************************************************************)
EXTENDS Integers, Sequences, FiniteSets

\* ---------------------------------------------------------------- bounds
\* Longest input stream explored.
MaxLines == 6
\* Window size. The script sets trail = 300 (line 29); the model scales it
\* down so that series both shorter and longer than the window occur.
Trail == 2
\* Quanta per unit: the literal "1" is the float Scale.
Scale == 2
\* Largest finite float, in quanta.
FMax == 20

Inf == FMax + 1
NegInf == 0 - Inf
NaN == FMax + 2

\* The lines the input stream may deliver: integer literals with and without
\* surrounding whitespace, a word, and a blank line.
Lines ==
    { <<"1">>, <<" ", "2", " ">>, <<"8">>, <<"-", "8">>, <<"x">>, <<" ">> }

\* input      the lines fileinput.input() has delivered so far (line 9)
\* i          the running index (lines 5, 17)
\* lefts      values of the even-indexed lines (lines 6, 13)
\* rights     values of the odd-indexed lines (lines 7, 15)
\* leftTrail  lefts[-trail:] once line 31 has run
\* rightTrail rights[-trail:] once line 38 has run
\* out        the records logging.info has emitted: format and arguments
\* pc         the statement to run next ("L9" is the read loop), or
\*            "done" / "failed" once the process has ended
\* err        the uncaught exception, "none" if there is none
\* exitCode   the exit status, -1 while the process runs
VARIABLES input, i, lefts, rights, leftTrail, rightTrail, out, pc, err, exitCode

vars == <<input, i, lefts, rights, leftTrail, rightTrail, out, pc, err, exitCode>>

\* ------------------------------------------------------- float arithmetic
IsFinite(x) == x >= 0 - FMax /\ x <= FMax

\* x < y and x <= y on floats: false whenever a NaN is involved.
FLt(x, y) == x # NaN /\ y # NaN /\ x < y

FLe(x, y) == x # NaN /\ y # NaN /\ x <= y

\* An exact result brought into the format: overflow gives an infinity.
FRound(x) == IF x > FMax THEN Inf ELSE IF x < 0 - FMax THEN NegInf ELSE x

FAdd(x, y) ==
    IF x = NaN \/ y = NaN THEN NaN
    ELSE IF x = Inf THEN (IF y = NegInf THEN NaN ELSE Inf)
    ELSE IF x = NegInf THEN (IF y = Inf THEN NaN ELSE NegInf)
    ELSE IF y = Inf \/ y = NegInf THEN y
    ELSE FRound(x + y)

\* s / n for exact s, rounded to the nearest quantum, ties to even.
RoundDiv(s, n) ==
    LET q == s \div n
        r == s % n
    IN  IF 2 * r < n THEN q
        ELSE IF 2 * r > n THEN q + 1
        ELSE IF q % 2 = 0 THEN q ELSE q + 1

FDiv(x, n) == IF IsFinite(x) THEN RoundDiv(x, n) ELSE x

\* ---------------------------------------------------------------- parsing
RECURSIVE lstrip(_)
lstrip(s) == IF s # <<>> /\ Head(s) = " " THEN lstrip(Tail(s)) ELSE s

RECURSIVE rstrip(_)
rstrip(s) ==
    IF s # <<>> /\ s[Len(s)] = " " THEN rstrip(SubSeq(s, 1, Len(s) - 1)) ELSE s

\* line.strip()
strip(s) == rstrip(lstrip(s))

Digits == {"0", "1", "2", "3", "4", "5", "6", "7", "8", "9"}

DigitVal(c) ==
    CASE c = "0" -> 0 [] c = "1" -> 1 [] c = "2" -> 2 [] c = "3" -> 3
      [] c = "4" -> 4 [] c = "5" -> 5 [] c = "6" -> 6 [] c = "7" -> 7
      [] c = "8" -> 8 [] c = "9" -> 9

RECURSIVE ToNat(_)
ToNat(s) ==
    IF s = <<>> THEN 0
    ELSE 10 * ToNat(SubSeq(s, 1, Len(s) - 1)) + DigitVal(s[Len(s)])

\* float(s) on signed integer literals: ok = FALSE stands for the ValueError
\* raised on anything else (the empty string included).
float(s) ==
    LET signed == s # <<>> /\ Head(s) \in {"-", "+"}
        body == IF signed THEN Tail(s) ELSE s
        sign == IF signed /\ Head(s) = "-" THEN 0 - 1 ELSE 1
    IN  IF body = <<>> \/ \E k \in 1..Len(body) : body[k] \notin Digits
        THEN [ok |-> FALSE, v |-> 0]
        ELSE [ok |-> TRUE, v |-> FRound(sign * ToNat(body) * Scale)]

\* ------------------------------------------------------------- statistics
RECURSIVE FoldMin(_, _)
FoldMin(best, S) ==
    IF S = <<>> THEN best
    ELSE FoldMin(IF FLt(Head(S), best) THEN Head(S) ELSE best, Tail(S))

\* min(S), S non-empty: the first element no later element is less than.
min(S) == FoldMin(Head(S), Tail(S))

RECURSIVE FoldMax(_, _)
FoldMax(best, S) ==
    IF S = <<>> THEN best
    ELSE FoldMax(IF FLt(best, Head(S)) THEN Head(S) ELSE best, Tail(S))

\* max(S), S non-empty.
max(S) == FoldMax(Head(S), Tail(S))

RECURSIVE Insert(_, _)
Insert(x, T) ==
    IF T = <<>> THEN <<x>>
    ELSE IF FLt(x, Head(T)) THEN <<x>> \o T
    ELSE <<Head(T)>> \o Insert(x, Tail(T))

\* sorted(S): a stable ascending sort of a copy of S.
RECURSIVE sorted(_)
sorted(S) ==
    IF S = <<>> THEN <<>>
    ELSE Insert(S[Len(S)], sorted(SubSeq(S, 1, Len(S) - 1)))

RECURSIVE SumExact(_)
SumExact(S) == IF S = <<>> THEN 0 ELSE Head(S) + SumExact(Tail(S))

RECURSIVE SumSpecial(_)
SumSpecial(S) ==
    IF S = <<>> THEN 0
    ELSE IF IsFinite(Head(S)) THEN SumSpecial(Tail(S))
    ELSE FAdd(Head(S), SumSpecial(Tail(S)))

\* statistics.mean(S), S non-empty: the exact sum of the finite values divided
\* by the count and rounded once; with infinities or NaN in S, their float sum.
mean(S) ==
    IF \A k \in 1..Len(S) : IsFinite(S[k])
    THEN RoundDiv(SumExact(S), Len(S))
    ELSE FDiv(SumSpecial(S), Len(S))

\* statistics.median(S), S non-empty: the middle of the sorted copy, or the
\* float average (a + b) / 2 of the two middle elements.
median(S) ==
    LET data == sorted(S)
        n == Len(data)
    IN  IF n % 2 = 1 THEN data[(n \div 2) + 1]
        ELSE FDiv(FAdd(data[n \div 2], data[(n \div 2) + 1]), 2)

Stat(name, S) ==
    CASE name = "min" -> min(S)
      [] name = "mean" -> mean(S)
      [] name = "median" -> median(S)
      [] name = "max" -> max(S)

\* Mutant: S[:n], the leading window.
TrailingHead(S, n) == SubSeq(S, 1, IF Len(S) < n THEN Len(S) ELSE n)

\* Mutant: S[n:], the sign of the start lost.
TrailingPositive(S, n) == SubSeq(S, n + 1, Len(S))

\* S[-n:]: a negative start counts from the end and is clamped at 0.
Trailing(S, n) ==
    LET start == IF 0 - n < 0
                 THEN (IF Len(S) - n < 0 THEN 0 ELSE Len(S) - n)
                 ELSE 0
    IN  SubSeq(S, start + 1, Len(S))

\* ---------------------------------------------------------------- program
Init ==
    /\ input = <<>>
    /\ i = 0
    /\ lefts = <<>>
    /\ rights = <<>>
    /\ leftTrail = <<>>
    /\ rightTrail = <<>>
    /\ out = <<>>
    /\ pc = "L9"
    /\ err = "none"
    /\ exitCode = 0 - 1

\* An uncaught exception: the traceback is printed and the process exits 1.
Raise(e) ==
    /\ pc' = "failed"
    /\ err' = e
    /\ exitCode' = 1

\* Mutant: i % 2 == 1.
GoesLeftOdd(idx) == idx % 2 = 1

\* i % 2 == 0
GoesLeft(idx) == idx % 2 = 0

\* Mutant: i = i + 1 indented into the else branch.
ReadLineIncrInElse ==
    /\ pc = "L9"
    /\ Len(input) < MaxLines
    /\ \E line \in Lines :
         LET value == float(strip(line))
         IN  /\ input' = Append(input, line)
             /\ IF value.ok
                THEN /\ lefts' = IF GoesLeft(i) THEN Append(lefts, value.v) ELSE lefts
                     /\ rights' = IF GoesLeft(i) THEN rights ELSE Append(rights, value.v)
                     /\ i' = IF GoesLeft(i) THEN i ELSE i + 1
                     /\ UNCHANGED <<pc, err, exitCode>>
                ELSE /\ Raise("ParseError")
                     /\ UNCHANGED <<i, lefts, rights>>
    /\ UNCHANGED <<leftTrail, rightTrail, out>>

\* Mutant: each value is logged as it is read.
ReadLineLogging ==
    /\ pc = "L9"
    /\ Len(input) < MaxLines
    /\ \E line \in Lines :
         LET value == float(strip(line))
         IN  /\ input' = Append(input, line)
             /\ IF value.ok
                THEN /\ lefts' = IF GoesLeft(i) THEN Append(lefts, value.v) ELSE lefts
                     /\ rights' = IF GoesLeft(i) THEN rights ELSE Append(rights, value.v)
                     /\ i' = i + 1
                     /\ out' = Append(out, [fmt |-> "value: %s", args |-> <<value.v>>])
                     /\ UNCHANGED <<pc, err, exitCode>>
                ELSE /\ Raise("ParseError")
                     /\ UNCHANGED <<i, lefts, rights, out>>
    /\ UNCHANGED <<leftTrail, rightTrail>>

\* Mutant: a line that does not parse is skipped (try / except: continue).
ReadLineSkipBad ==
    /\ pc = "L9"
    /\ Len(input) < MaxLines
    /\ \E line \in Lines :
         LET value == float(strip(line))
         IN  /\ input' = Append(input, line)
             /\ IF value.ok
                THEN /\ lefts' = IF GoesLeft(i) THEN Append(lefts, value.v) ELSE lefts
                     /\ rights' = IF GoesLeft(i) THEN rights ELSE Append(rights, value.v)
                     /\ i' = i + 1
                ELSE UNCHANGED <<i, lefts, rights>>
    /\ UNCHANGED <<pc, err, exitCode, leftTrail, rightTrail, out>>

\* One iteration of the read loop (lines 9-17) on the next line of the stream.
ReadLine ==
    /\ pc = "L9"
    /\ Len(input) < MaxLines
    /\ \E line \in Lines :
         LET value == float(strip(line))
         IN  /\ input' = Append(input, line)
             /\ IF value.ok
                THEN /\ lefts' = IF GoesLeft(i) THEN Append(lefts, value.v) ELSE lefts
                     /\ rights' = IF GoesLeft(i) THEN rights ELSE Append(rights, value.v)
                     /\ i' = i + 1
                     /\ UNCHANGED <<pc, err, exitCode>>
                ELSE /\ Raise("ParseError")
                     /\ UNCHANGED <<i, lefts, rights>>
    /\ UNCHANGED <<leftTrail, rightTrail, out>>

\* The stream ends: the loop is left for line 19.
EndOfInput ==
    /\ pc = "L9"
    /\ pc' = "L19"
    /\ UNCHANGED <<input, i, lefts, rights, leftTrail, rightTrail, out, err, exitCode>>

\* logging.info(fmt, pre..., stat(S)) at line `at`: the statistic is computed
\* first and raises on an empty S; otherwise one record is emitted. Falling
\* off the end of the script exits 0.
LogInfo(at, fmt, pre, name, S, next) ==
    /\ pc = at
    /\ IF S = <<>>
       THEN /\ Raise("EmptySequenceError")
            /\ UNCHANGED out
       ELSE /\ out' = Append(out, [fmt |-> fmt, args |-> pre \o <<Stat(name, S)>>])
            /\ pc' = next
            /\ exitCode' = IF next = "done" THEN 0 ELSE exitCode
            /\ UNCHANGED err
    /\ UNCHANGED <<input, i, lefts, rights, leftTrail, rightTrail>>

\* Mutant: min(lefts, default=0).
L19Default ==
    /\ pc = "L19"
    /\ out' = Append(out, [fmt |-> "min left: %s",
                           args |-> <<IF lefts = <<>> THEN 0 ELSE min(lefts)>>])
    /\ pc' = "L20"
    /\ UNCHANGED <<input, i, lefts, rights, leftTrail, rightTrail, err, exitCode>>

L19 == LogInfo("L19", "min left: %s", <<>>, "min", lefts, "L20")

L20 == LogInfo("L20", "mean left: %s", <<>>, "mean", lefts, "L21")

\* Mutant: line 20 pasted over line 21.
L21AsMean == LogInfo("L21", "mean left: %s", <<>>, "mean", lefts, "L22")

L21 == LogInfo("L21", "median left: %s", <<>>, "median", lefts, "L22")

L22 == LogInfo("L22", "max left: %s\n", <<>>, "max", lefts, "L24")

\* Mutant: min(rights, default=0).
L24Default ==
    /\ pc = "L24"
    /\ out' = Append(out, [fmt |-> "min right: %s",
                           args |-> <<IF rights = <<>> THEN 0 ELSE min(rights)>>])
    /\ pc' = "L25"
    /\ UNCHANGED <<input, i, lefts, rights, leftTrail, rightTrail, err, exitCode>>

L24 == LogInfo("L24", "min right: %s", <<>>, "min", rights, "L25")

L25 == LogInfo("L25", "mean right: %s", <<>>, "mean", rights, "L26")

L26 == LogInfo("L26", "median right: %s", <<>>, "median", rights, "L27")

L27 == LogInfo("L27", "max right: %s\n", <<>>, "max", rights, "L31")

\* trail = 300; leftTrail = lefts[-trail:]
L31 ==
    /\ pc = "L31"
    /\ leftTrail' = Trailing(lefts, Trail)
    /\ pc' = "L33"
    /\ UNCHANGED <<input, i, lefts, rights, rightTrail, out, err, exitCode>>

L33 == LogInfo("L33", "trailing %d min left: %s", <<Trail>>, "min", leftTrail, "L34")

L34 == LogInfo("L34", "trailing %d mean left: %s", <<Trail>>, "mean", leftTrail, "L35")

L35 == LogInfo("L35", "trailing %d median left: %s", <<Trail>>, "median", leftTrail, "L36")

L36 == LogInfo("L36", "trailing %d max left: %s\n", <<Trail>>, "max", leftTrail, "L38")

\* rightTrail = rights[-trail:]
L38 ==
    /\ pc = "L38"
    /\ rightTrail' = Trailing(rights, Trail)
    /\ pc' = "L40"
    /\ UNCHANGED <<input, i, lefts, rights, leftTrail, out, err, exitCode>>

L40 == LogInfo("L40", "trailing %d min right: %s", <<Trail>>, "min", rightTrail, "L41")

L41 == LogInfo("L41", "trailing %d mean right: %s", <<Trail>>, "mean", rightTrail, "L42")

L42 == LogInfo("L42", "trailing %d median right: %s", <<Trail>>, "median", rightTrail, "L43")

L43 == LogInfo("L43", "trailing %d max right: %s", <<Trail>>, "max", rightTrail, "done")

Next ==
    \/ ReadLine
    \/ EndOfInput
    \/ L19 \/ L20 \/ L21 \/ L22
    \/ L24 \/ L25 \/ L26 \/ L27
    \/ L31
    \/ L33 \/ L34 \/ L35 \/ L36
    \/ L38
    \/ L40 \/ L41 \/ L42 \/ L43

Spec == Init /\ [][Next]_vars

\* ----------------------------------------------------------------- claims
Terminated == pc \in {"done", "failed"}

Parses(line) == float(strip(line)).ok

Val(line) == float(strip(line)).v

AllParse == \A j \in 1..Len(input) : Parses(input[j])

\* The lines of the stream parsed so far: all consumed lines but a rejected one.
NParsed == IF err = "ParseError" THEN Len(input) - 1 ELSE Len(input)

Fmts == [k \in 1..Len(out) |-> out[k].fmt]

\* The value a record carries: the last argument of its format.
Value(k) == out[k].args[Len(out[k].args)]

Order ==
    << "min left: %s", "mean left: %s", "median left: %s", "max left: %s\n",
       "min right: %s", "mean right: %s", "median right: %s", "max right: %s\n",
       "trailing %d min left: %s", "trailing %d mean left: %s",
       "trailing %d median left: %s", "trailing %d max left: %s\n",
       "trailing %d min right: %s", "trailing %d mean right: %s",
       "trailing %d median right: %s", "trailing %d max right: %s" >>

\* C1: in every state, lefts holds exactly the values of the parsed input
\* lines at even zero-based indices and rights those at odd indices, in
\* arrival order: lefts[k] is the value of line 2k and rights[k] of line 2k+1
\* (zero-based k), and every parsed line is in its bucket.
C1_ParityBuckets ==
    /\ Len(lefts) = (NParsed + 1) \div 2
    /\ Len(rights) = NParsed \div 2
    /\ \A k \in 1..Len(lefts) : lefts[k] = Val(input[2 * k - 1])
    /\ \A k \in 1..Len(rights) : rights[k] = Val(input[2 * k])

C1_Witness ==
    /\ pc = "L19"
    /\ Len(lefts) = 3
    /\ Len(rights) = 2
    /\ lefts[1] # lefts[2]
    /\ lefts[3] # rights[2]

\* C2: after every loop iteration len(lefts) + len(rights) is the running
\* index i and len(lefts) - len(rights) is 0 or 1; once the loop has ended on
\* n numeric lines, len(lefts) = ceil(n/2) and len(rights) = floor(n/2).
C2_Lengths ==
    /\ Len(lefts) + Len(rights) = i
    /\ Len(lefts) - Len(rights) \in {0, 1}
    /\ (pc # "L9" /\ AllParse) =>
          /\ 2 * Len(lefts) \in {Len(input), Len(input) + 1}
          /\ 2 * Len(rights) \in {Len(input), Len(input) - 1}

C2_Witness == pc = "L19" /\ Len(input) = 5 /\ Len(lefts) = 3 /\ Len(rights) = 2

\* C3: the statistics emitted so far are always a prefix of the fixed order
\* of the 16 statistics (none is emitted before an earlier one, none twice),
\* and a run that completes has emitted all 16.
C3_ReportOrder ==
    /\ Len(out) <= Len(Order)
    /\ Fmts = SubSeq(Order, 1, Len(out))
    /\ pc = "done" => Len(out) = 16

C3_Witness == pc = "done" /\ Len(out) = 16 /\ exitCode = 0

C5_ParseErrorNoOutput ==
    /\ ~AllParse => (err = "ParseError" /\ pc = "failed" /\ out = <<>>)
    /\ err = "ParseError" => (~Parses(input[Len(input)]) /\ out = <<>>)
    /\ pc = "L9" => out = <<>>

C5_Witness ==
    /\ err = "ParseError"
    /\ Len(input) = MaxLines
    /\ \A j \in 1..(Len(input) - 1) : Parses(input[j])
    /\ out = <<>>

\* C6: on empty input the first statement after the read loop raises
\* EmptySequenceError, and nothing is ever emitted.
C6_EmptyInput ==
    input = <<>> =>
        /\ out = <<>>
        /\ pc \in {"L9", "L19", "failed"}
        /\ pc = "failed" => err = "EmptySequenceError"

C6_Witness == input = <<>> /\ pc = "failed" /\ err = "EmptySequenceError"

IsWindow(S, w) ==
    /\ Len(S) <= Trail => w = S
    /\ Len(S) > Trail =>
          /\ Len(w) = Trail
          /\ \A k \in 1..Trail : w[k] = S[Len(S) - Trail + k]

\* C7: once computed, leftTrail is lefts itself when lefts has at most Trail
\* elements and otherwise its last Trail elements in order; the same for
\* rightTrail and rights; and lefts and rights are still the parsed input.
C7_TrailingWindow ==
    /\ (Len(out) >= 8 /\ pc # "L31") =>
          /\ IsWindow(lefts, leftTrail)
          /\ \A k \in 1..Len(lefts) : lefts[k] = Val(input[2 * k - 1])
          /\ 2 * Len(lefts) \in {Len(input), Len(input) + 1}
    /\ (Len(out) >= 12 /\ pc # "L38") =>
          /\ IsWindow(rights, rightTrail)
          /\ \A k \in 1..Len(rights) : rights[k] = Val(input[2 * k])
          /\ 2 * Len(rights) \in {Len(input), Len(input) - 1}

C7_Witness ==
    /\ pc = "L40"
    /\ Len(lefts) > Trail
    /\ Len(rights) > Trail
    /\ rights[1] # rights[Len(rights)]
    /\ lefts[1] # lefts[Len(lefts)]

\* C8: a run that has ended exited with 0 if and only if every input line
\* parsed and there were at least two lines; otherwise it exited non-zero.
C8_ExitCode ==
    /\ Terminated => (exitCode = 0 <=> (AllParse /\ Len(input) >= 2))
    /\ Terminated => (exitCode = 0 <=> pc = "done")
    /\ Terminated => exitCode # 0 - 1

C8_Witness == pc = "done" /\ exitCode = 0 /\ Len(input) = 2

\* C9: within every block of four statistics emitted for a series,
\* min <= median <= max and min <= mean <= max.
C9_StatsOrdered ==
    \A b \in 0..3 :
        Len(out) >= 4 * b + 4 =>
            /\ FLe(Value(4 * b + 1), Value(4 * b + 3))
            /\ FLe(Value(4 * b + 3), Value(4 * b + 4))
            /\ FLe(Value(4 * b + 1), Value(4 * b + 2))
            /\ FLe(Value(4 * b + 2), Value(4 * b + 4))

\* C10: a run that has ended has emitted 0, 4 or 16 statistics: 0 when a line
\* failed to parse or the input was empty, 4 (those of lefts) exactly when the
\* input was one valid line, 16 when it was two or more valid lines; and no
\* statistic fails once the eight full-series statistics are out.
C10_OutputCount ==
    /\ Terminated =>
          /\ Len(out) \in {0, 4, 16}
          /\ Len(out) = 0 <=> (~AllParse \/ input = <<>>)
          /\ Len(out) = 4 <=> (AllParse /\ Len(input) = 1)
          /\ Len(out) = 16 <=> (AllParse /\ Len(input) >= 2)
    /\ Len(out) >= 8 => err = "none"

C10_Witness == pc = "failed" /\ Len(out) = 4 /\ Len(input) = 1

====
